---- MODULE Spec2Model ----
(***************************************************************************)
(* Model of the band-segmentation pipeline of route-chart.  One render of *)
(* a single-pair component is run as a state machine: connected ->         *)
(* segments -> strip extraction (one segment per step) -> final flush.     *)
(* The component is PairHighlighter of src/src/App.tsx (lines 407-649), or *)
(* one of the two guarded components of src/src/HighlightAreas.tsx.  The   *)
(* multi-pair orchestrator MultiRouteHighlighter (src/unnamed/part_003) is *)
(* a second state machine: its render, then one step per child pipeline.   *)
(*                                                                         *)
(* Numbers.  The program computes with IEEE doubles; the model computes    *)
(* with exact rationals <<n, d>> (d > 0, lowest terms).  Every non-finite  *)
(* double (NaN, +-Infinity, and the `undefined` a scale returns for an     *)
(* unknown key) is the one value NaN = <<0, 0>>: the program applies only  *)
(* Number.isFinite to values that can be non-finite.  A missing raw value  *)
(* is Null = << >>.  Rounding is not modelled.                             *)
(*                                                                         *)
(* Indices are 1-based; the source's "no index" -1 is 0 here.              *)
(***************************************************************************)
EXTENDS Integers, Sequences, FiniteSets, TLC

\* ------------------------------------------------------------------ bounds
\* Largest number of rows handed to the component.
MaxRows == 3

\* Number of combined rows handed to the multi-pair orchestrator.
MaxMultiRows == 2

\* Largest number of rows handed to deduplicateWeekendData.
MaxDedupRows == 4

\* Largest number of changes of rows, keys and scales between the renders
\* of one mounted component.
MaxChanges == 2

\* ---------------------------------------------------------------- numbers
Null == << >>
NaN == <<0, 0>>

Abs(n) == IF n < 0 THEN -n ELSE n

RECURSIVE GCD(_, _)
GCD(a, b) == IF b = 0 THEN a ELSE GCD(b, a % b)

\* The double n/d; a zero denominator is a non-finite result.
Norm(n, d) ==
    IF d = 0 THEN NaN
    ELSE LET g == GCD(Abs(n), Abs(d))
             s == IF d < 0 THEN -1 ELSE 1
         IN  <<(s * n) \div g, (s * d) \div g>>

R(n) == <<n, 1>>

\* typeof v === "number"
IsNumber(v) == v # Null

\* Number.isFinite(v)
IsFinite(v) == v # Null /\ v[2] # 0

RAdd(p, q) == IF IsFinite(p) /\ IsFinite(q)
              THEN Norm(p[1] * q[2] + q[1] * p[2], p[2] * q[2]) ELSE NaN
RSub(p, q) == IF IsFinite(p) /\ IsFinite(q)
              THEN Norm(p[1] * q[2] - q[1] * p[2], p[2] * q[2]) ELSE NaN
RMul(p, q) == IF IsFinite(p) /\ IsFinite(q)
              THEN Norm(p[1] * q[1], p[2] * q[2]) ELSE NaN
RDiv(p, q) == IF IsFinite(p) /\ IsFinite(q)
              THEN Norm(p[1] * q[2], p[2] * q[1]) ELSE NaN
\* p < q, p <= q on finite values (a comparison with NaN is false)
RLt(p, q) == IsFinite(p) /\ IsFinite(q) /\ p[1] * q[2] < q[1] * p[2]
RLe(p, q) == IsFinite(p) /\ IsFinite(q) /\ p[1] * q[2] <= q[1] * p[2]
Zero == R(0)
One == R(1)

\* ----------------------------------------------------------------- inputs
\* Raw values of the A series (aKey) and of the B series (bKey) in a row.
RawA == {Null, R(0), R(1), R(2)}
RawB == {Null, R(1), R(3)}
Rows == [a : RawA, b : RawB]

\* The x scale of the chart (xAxis?.scale): absent, or a function of the
\* row's timestampUk (the rows are sorted and distinct in timestampUk, so a
\* timestamp is the row's index).
\*   "point": strictly increasing, unevenly spaced positions
\*   "flat" : every timestamp at the same position (zero-width range)
\*   "hole" : as "point", but no position (undefined) for the first row
XScales == {"absent", "point", "flat", "hole"}
\* The y scale (yAxis?.scale): absent, or a function of a value.
\*   "down": linear, decreasing (pixel y grows downwards)
\*   "flat": every value at the same pixel (zero-height range)
\*   "clip": as "down" on v > 0, non-finite on v <= 0 (a log-like domain)
YScales == {"absent", "down", "flat", "clip"}

Sx(scale, ts) ==
    CASE scale = "point" -> R(ts * ts)
      [] scale = "flat"  -> R(4)
      [] scale = "hole"  -> IF ts = 1 THEN NaN ELSE R(ts * ts)

Sy(scale, v) ==
    CASE scale = "down" -> RSub(R(12), RMul(R(3), v))
      [] scale = "flat" -> R(6)
      [] scale = "clip" -> IF RLe(v, Zero) THEN NaN
                           ELSE RSub(R(12), RMul(R(3), v))

VARIABLES
    data,            \* props.data: the rows
    xScale, yScale,  \* xAxis?.scale, yAxis?.scale
    pc,              \* "connected" | "segments" | "strips" | "done" | "threw"
                     \* | "null" (the component returned null)
                     \* | "multi" | "pairs" (the orchestrator's render)
    aResolved,       \* per row: A after interpolation (Null: unresolved)
    bResolved,       \* per row: B after forward fill (Null: unresolved)
    connected,       \* the resolved samples
    segments,        \* the segments
    k,               \* index of the next segment of the strip loop
    current,         \* the open strip
    currentIsAbove,  \* "null" | "above" | "below"
    above, below,    \* the emitted strips
    last,            \* history: the branch the last loop step took, and
                     \* the strip state it started from
    variant,         \* the component: "pair" (PairHighlighter of App.tsx),
                     \* "guarded" (PairHighlighter of HighlightAreas.tsx),
                     \* "areas" (HighlightAreas of HighlightAreas.tsx),
                     \* "both" (HighlightAreas of part_002: no gap filling)
    enabled,         \* props.enabled
    connectNulls,    \* props.connectNulls of HighlightAreas
    hasRoute2,       \* props.hasRoute2 of MultiRouteHighlighter
    hidden,          \* props.hidden: metric base -> BOOLEAN
    mdata,           \* props.data of MultiRouteHighlighter: combined rows
    elements,        \* the PairHighlighter elements it returned, in order
    outputs,         \* per element: the strips its PairHighlighter rendered
    memo,            \* PairHighlighter across renders: the selected keys,
                     \* the identities of data and scales, the useMemo cells
    chart,           \* CostsAndSpreadsChart: its hidden state and what it
                     \* derives from it
    dedup            \* deduplicateWeekendData: its argument and its result

\* The props a single pipeline reads beside data and the scales.
props == <<variant, enabled, connectNulls>>

\* The orchestrator's props and children.
multi == <<hasRoute2, hidden, mdata, elements, outputs>>

\* The state of the components around the single render.
around == <<memo, chart, dedup>>

vars == <<data, xScale, yScale, pc, aResolved, bResolved, connected,
          segments, k, current, currentIsAbove, above, below, last,
          props, multi, around>>

\* -------------------------------------------------------------- connected
\* aVals[i]
AVal(rows, i) == rows[i].a

\* prevA when row i is reached: the last index before i with a numeric A.
PrevA(rows, i) ==
    LET S == {j \in 1..(i - 1) : IsNumber(AVal(rows, j))}
    IN  IF S = {} THEN 0 ELSE CHOOSE j \in S : \A m \in S : m <= j

\* nextValidA[i]: the first index at or after i with a numeric A.
NextValidA(rows, i) ==
    LET S == {j \in i..Len(rows) : IsNumber(AVal(rows, j))}
    IN  IF S = {} THEN 0 ELSE CHOOSE j \in S : \A m \in S : j <= m

\* The fractional position taken from the row indices, not the x pixels.
InterpTByIndex(sx, left, right, i) ==
    RDiv(R(i - left), R(right - left))

\* The fractional position of row i between rows left and right.
InterpT(sx, left, right, i) ==
    RDiv(RSub(Sx(sx, i), Sx(sx, left)), RSub(Sx(sx, right), Sx(sx, left)))

\* Interpolation that reads aVals[prevA] after prevA was advanced: a row
\* with a raw value gets the value of the previous valid row.
InterpolateStaleAnchor(rows, sx, i) ==
    LET aRaw == AVal(rows, i)
        left == PrevA(rows, i)
    IN  IF IsNumber(aRaw)
        THEN IF left # 0 THEN AVal(rows, left) ELSE aRaw
        ELSE Null

\* A: interpolate across gaps.
InterpolateA(rows, sx, i) ==
    LET aRaw == AVal(rows, i)
        left == PrevA(rows, i)
        right == NextValidA(rows, i)
    IN  IF IsNumber(aRaw) THEN aRaw
        ELSE IF left # 0 /\ right # 0 /\ right # left
        THEN LET denom == RSub(Sx(sx, right), Sx(sx, left))
                 t == InterpT(sx, left, right, i)
             IN  IF IsFinite(denom) /\ denom # Zero /\ IsFinite(t)
                 THEN RAdd(AVal(rows, left),
                           RMul(t, RSub(AVal(rows, right), AVal(rows, left))))
                 ELSE Null
        ELSE Null

\* lastB never updated after its first assignment: the first numeric B.
LastBFirst(rows, i) ==
    LET S == {j \in 1..(i - 1) : IsNumber(rows[j].b)}
    IN  IF S = {} THEN Null ELSE rows[CHOOSE j \in S : \A m \in S : j <= m].b

\* lastB when row i is reached.
LastB(rows, i) ==
    LET S == {j \in 1..(i - 1) : IsNumber(rows[j].b)}
    IN  IF S = {} THEN Null ELSE rows[CHOOSE j \in S : \A m \in S : m <= j].b

\* B: forward-fill.
ForwardFillB(rows, i) ==
    IF IsNumber(rows[i].b) THEN rows[i].b ELSE LastB(rows, i)

\* lastA / lastSpread when row i is reached.
LastA(rows, i) ==
    LET S == {j \in 1..(i - 1) : IsNumber(rows[j].a)}
    IN  IF S = {} THEN Null ELSE rows[CHOOSE j \in S : \A m \in S : m <= j].a

\* typeof aRaw === "number" ? aRaw : connectNulls ? lastA : null
FilledA(rows, cn, i) ==
    IF IsNumber(rows[i].a) THEN rows[i].a
    ELSE IF cn THEN LastA(rows, i) ELSE Null

\* typeof bRaw === "number" ? bRaw : connectNulls ? lastB : null
FilledB(rows, cn, i) ==
    IF IsNumber(rows[i].b) THEN rows[i].b
    ELSE IF cn THEN LastB(rows, i) ELSE Null

\* out of the connected memo of the guarded components: both series forward
\* filled (cn) or raw (~ cn), the rows at which both are numbers.
ConnectedFilled(rows, cn) ==
    SelectSeq([i \in 1..Len(rows) |->
                  [timestampUk |-> i,
                   a |-> FilledA(rows, cn, i),
                   b |-> FilledB(rows, cn, i)]],
              LAMBDA p : IsNumber(p.a) /\ IsNumber(p.b))

\* The connected memo emitting a row as soon as one series resolved.
ConnectedOfEither(rows, sx) ==
    SelectSeq([i \in 1..Len(rows) |->
                  [timestampUk |-> i,
                   a |-> InterpolateA(rows, sx, i),
                   b |-> ForwardFillB(rows, i)]],
              LAMBDA p : IsNumber(p.a) \/ IsNumber(p.b))

\* out of the connected memo: the rows at which both series resolved.
\* timestampUk is the row's index.
ConnectedOf(rows, sx) ==
    SelectSeq([i \in 1..Len(rows) |->
                  [timestampUk |-> i,
                   a |-> InterpolateA(rows, sx, i),
                   b |-> ForwardFillB(rows, i)]],
              LAMBDA p : IsNumber(p.a) /\ IsNumber(p.b))

\* --------------------------------------------------------------- segments
\* The dominance flag with >= for >.
AboveOrEqual(p) == RLe(p.b, p.a)

\* p.a > p.b
Above(p) == RLt(p.b, p.a)

\* The candidate segment of connected[i], connected[i + 1].  The field i is
\* history: the position of the segment's first sample in connected.
SegOf(conn, sx, sy, i) ==
    LET p0 == conn[i]
        p1 == conn[i + 1]
    IN  [x0 |-> Sx(sx, p0.timestampUk), x1 |-> Sx(sx, p1.timestampUk),
         yA0 |-> Sy(sy, p0.a), yA1 |-> Sy(sy, p1.a),
         yB0 |-> Sy(sy, p0.b), yB1 |-> Sy(sy, p1.b),
         above0 |-> Above(p0), above1 |-> Above(p1),
         i |-> i]

\* [x0, x1, yA0, yA1, yB0, yB1].every(Number.isFinite)
SegFinite(s) ==
    /\ IsFinite(s.x0) /\ IsFinite(s.x1)
    /\ IsFinite(s.yA0) /\ IsFinite(s.yA1)
    /\ IsFinite(s.yB0) /\ IsFinite(s.yB1)

\* The segments loop running to i < connected.length, the last sample
\* paired with itself.
SegmentsOfSelfPair(conn, sx, sy) ==
    IF sx = "absent" \/ sy = "absent" THEN << >>
    ELSE SelectSeq([i \in 1..Len(conn) |->
                       SegOf(conn \o <<conn[Len(conn)]>>, sx, sy, i)],
                   SegFinite)

SegmentsOf(conn, sx, sy) ==
    IF Len(conn) < 2 THEN << >>
    ELSE SelectSeq([i \in 1..(Len(conn) - 1) |-> SegOf(conn, sx, sy, i)],
                   SegFinite)

\* The rows as the segments loop of part_002 reads them: raw values, no
\* filling.  timestampUk is the row's index.
RawSamples(rows) ==
    [i \in 1..Len(rows) |->
        [timestampUk |-> i, a |-> rows[i].a, b |-> rows[i].b]]

\* typeof spreadA, spreadB, costA, costB === "number"
BothPresent(conn, i) ==
    /\ IsNumber(conn[i].a) /\ IsNumber(conn[i + 1].a)
    /\ IsNumber(conn[i].b) /\ IsNumber(conn[i + 1].b)

\* The segments memo of part_002: adjacent rows with both series present
\* at both ends and finite coordinates.
SegmentsOfBoth(conn, sx, sy) ==
    IF Len(conn) < 2 THEN << >>
    ELSE SelectSeq([i \in 1..(Len(conn) - 1) |-> SegOf(conn, sx, sy, i)],
                   LAMBDA s : BothPresent(conn, s.i) /\ SegFinite(s))

\* ----------------------------------------------------------------- strips
\* t measured from the segment's end: diff1 / (diff1 - diff0).
CrossTFromEnd(s) ==
    LET diff0 == RSub(s.yB0, s.yA0)
        diff1 == RSub(s.yB1, s.yA1)
    IN  RDiv(diff1, RSub(diff1, diff0))

\* t = diff0 / denom
CrossT(s) ==
    LET diff0 == RSub(s.yB0, s.yA0)
        diff1 == RSub(s.yB1, s.yA1)
    IN  RDiv(diff0, RSub(diff0, diff1))

\* splitAtCrossing with the end tests loosened to t < 0 || t > 1.
SplitAtCrossingInclusive(s) ==
    LET diff0 == RSub(s.yB0, s.yA0)
        diff1 == RSub(s.yB1, s.yA1)
        denom == RSub(diff0, diff1)
        t == CrossT(s)
    IN  IF denom = Zero THEN Null
        ELSE IF RLt(t, Zero) \/ RLt(One, t) THEN Null
        ELSE [x |-> RAdd(s.x0, RMul(t, RSub(s.x1, s.x0))),
              yA |-> RAdd(s.yA0, RMul(t, RSub(s.yA1, s.yA0))),
              yB |-> RAdd(s.yB0, RMul(t, RSub(s.yB1, s.yB0))),
              t |-> t]

\* The crossing of A and B inside the segment, or Null.  The field t is
\* history (the source keeps t local).
SplitAtCrossing(s) ==
    LET diff0 == RSub(s.yB0, s.yA0)
        diff1 == RSub(s.yB1, s.yA1)
        denom == RSub(diff0, diff1)
        t == CrossT(s)
    IN  IF denom = Zero THEN Null
        ELSE IF RLe(t, Zero) \/ RLe(One, t) THEN Null
        ELSE [x |-> RAdd(s.x0, RMul(t, RSub(s.x1, s.x0))),
              yA |-> RAdd(s.yA0, RMul(t, RSub(s.yA1, s.yA0))),
              yB |-> RAdd(s.yB0, RMul(t, RSub(s.yB1, s.yB0))),
              t |-> t]

SignOf(isAbove) == IF isAbove THEN "above" ELSE "below"

\* Flush with the length test lost: any open strip is emitted.
FlushAnyLength(st) ==
    IF st.currentIsAbove = "null"
    THEN [st EXCEPT !.current = << >>, !.currentIsAbove = "null"]
    ELSE IF st.currentIsAbove = "above"
    THEN [st EXCEPT !.above = Append(@, st.current),
                    !.current = << >>, !.currentIsAbove = "null"]
    ELSE [st EXCEPT !.below = Append(@, st.current),
                    !.current = << >>, !.currentIsAbove = "null"]

\* The strip state of the loop: current, currentIsAbove, above, below.
Flush(st) ==
    IF st.currentIsAbove = "null" \/ Len(st.current) < 2
    THEN [st EXCEPT !.current = << >>, !.currentIsAbove = "null"]
    ELSE IF st.currentIsAbove = "above"
    THEN [st EXCEPT !.above = Append(@, st.current),
                    !.current = << >>, !.currentIsAbove = "null"]
    ELSE [st EXCEPT !.below = Append(@, st.current),
                    !.current = << >>, !.currentIsAbove = "null"]

PushPoint(st, isAbove, p) ==
    IF st.currentIsAbove = "null"
    THEN [st EXCEPT !.currentIsAbove = SignOf(isAbove), !.current = <<p>>]
    ELSE IF st.currentIsAbove # SignOf(isAbove)
    THEN [Flush(st) EXCEPT !.currentIsAbove = SignOf(isAbove),
                           !.current = <<p>>]
    ELSE [st EXCEPT !.current = Append(@, p)]

\* The strip points of a segment.  The field at is history: the point's
\* position on the axis of connected (sample i is R(i), a crossing inside
\* segment i is i + t).
\* HighlightAreas has no top/bot choice: yTop is the spread (A), yBot the
\* cost (B), at every point.
Point0(s) ==
    [x |-> s.x0,
     yTop |-> IF variant \in {"areas", "both"} \/ s.above0 THEN s.yA0 ELSE s.yB0,
     yBot |-> IF variant \in {"areas", "both"} \/ s.above0 THEN s.yB0 ELSE s.yA0,
     at |-> R(s.i)]

\* The second point with series A on top whatever the dominance.
Point1SeriesATop(s) ==
    [x |-> s.x1, yTop |-> s.yA1, yBot |-> s.yB1, at |-> R(s.i + 1)]

Point1(s) ==
    [x |-> s.x1,
     yTop |-> IF variant \in {"areas", "both"} \/ s.above1 THEN s.yA1 ELSE s.yB1,
     yBot |-> IF variant \in {"areas", "both"} \/ s.above1 THEN s.yB1 ELSE s.yA1,
     at |-> R(s.i + 1)]

CrossPoint(s) ==
    LET cross == SplitAtCrossing(s)
    IN  [x |-> cross.x,
         yTop |-> cross.yA,
         yBot |-> IF variant \in {"areas", "both"} THEN cross.yB ELSE cross.yA,
         at |-> RAdd(R(s.i), cross.t)]

\* The branch the loop body takes for segment s.
BranchOf(s) ==
    IF s.above0 = s.above1 THEN "same"
    ELSE IF SplitAtCrossing(s) = Null THEN "fallback"
    ELSE "cross"

\* The first point pushed for every segment, the length test lost.
StartAlways(st, s) == PushPoint(st, s.above0, Point0(s))

\* if (current.length === 0) pushPoint(isAbove0, {x: s.x0, ...})
StartIfEmpty(st, s) ==
    IF Len(st.current) = 0 THEN PushPoint(st, s.above0, Point0(s)) ELSE st

\* The same-sign branch with the start of the run lost: the segment's first
\* point is never pushed.
SameSignNoStart(st, s) ==
    PushPoint(st, s.above0, Point1(s))

\* isAbove0 === isAbove1
SameSign(st, s) ==
    PushPoint(StartIfEmpty(st, s), s.above0, Point1(s))

\* The fallback branch classing both points by the sign at the segment's end.
FallbackByEndSign(st, s) ==
    Flush(PushPoint(PushPoint(Flush(st), s.above1, Point0(s)),
                    s.above1, Point1(s)))

\* The fallback branch without its first flush: the two points go to the
\* open strip.
FallbackNoFlush(st, s) ==
    Flush(PushPoint(PushPoint(st, s.above0, Point0(s)), s.above0, Point1(s)))

\* The fallback branch without its last flush: the two points stay open.
FallbackLeftOpen(st, s) ==
    PushPoint(PushPoint(Flush(st), s.above0, Point0(s)), s.above0, Point1(s))

\* !cross: an abrupt break
Fallback(st, s) ==
    Flush(PushPoint(PushPoint(Flush(st), s.above0, Point0(s)),
                    s.above0, Point1(s)))

\* The crossing branch starting the new strip at the segment's end: the
\* crossing point is not pushed for the new sign.
CrossingNoRestart(st, s) ==
    LET closed == Flush(PushPoint(StartIfEmpty(st, s), s.above0,
                                  CrossPoint(s)))
    IN  PushPoint(closed, s.above1, Point1(s))

\* a solvable crossing
Crossing(st, s) ==
    LET closed == Flush(PushPoint(StartIfEmpty(st, s), s.above0,
                                  CrossPoint(s)))
    IN  PushPoint(PushPoint(closed, s.above1, CrossPoint(s)),
                  s.above1, Point1(s))

\* One iteration of `for (const s of segments)`.
LoopBody(st, s) ==
    CASE BranchOf(s) = "same" -> SameSign(st, s)
      [] BranchOf(s) = "fallback" -> Fallback(st, s)
      [] BranchOf(s) = "cross" -> Crossing(st, s)

StripState == [current |-> current, currentIsAbove |-> currentIsAbove,
               above |-> above, below |-> below]

\* ------------------------------------------------------------- the render
\* Short inputs: every row sequence of at most MaxRows rows, under every
\* pair of scales.
RowSeqs == UNION {[1..n -> Rows] : n \in 0..MaxRows}

\* Long inputs: rows with both raw values present, two rows more than
\* MaxRows, under the "point" and "clip" scales: a sample with a <= 0 has no
\* finite pixel, so that segments in the middle of the sequence are dropped.
DenseRows == [a : RawA \ {Null}, b : RawB \ {Null}]
LongSeqs == [1..(MaxRows + 2) -> DenseRows]

\* ------------------------------------------------- the multi-pair render
\* const spreads, const costs, and the route keys.
Spreads == <<"spread_acp", "spread_trayport">>
Costs == <<"cost_all", "cost_fixed", "cost_variable">>
RouteKeys == <<"r1", "r2">>

\* The metric bases hidden is keyed by.
MetricBases == {Spreads[n] : n \in 1..Len(Spreads)} \cup
               {Costs[n] : n \in 1..Len(Costs)}

\* `${s}_${route}`
MetricKeyOf(base, route) == base \o "_" \o route

\* The metric keys of a combined row.
MetricKeys ==
    {MetricKeyOf(base, RouteKeys[r]) : base \in MetricBases,
                                       r \in 1..Len(RouteKeys)}

\* The React key with the route left out.
ElementKeyNoRoute(route, s, c) == s \o "-" \o c

\* key={`${route}-${s}-${c}`}
ElementKey(route, s, c) == route \o "-" \o s \o "-" \o c

\* hasRoute2 ? ["r1", "r2"] : ["r1"]
RoutesOf(has2) == IF has2 THEN RouteKeys ELSE <<RouteKeys[1]>>

\* isVisible
IsVisible(hid, key) == ~ hid[key]

\* pairEnabled with the cost's visibility not consulted.
PairEnabledSpreadOnly(en, hid, s, c) == en /\ IsVisible(hid, s)

\* enabled && isVisible(s) && isVisible(c)
PairEnabled(en, hid, s, c) == en /\ IsVisible(hid, s) /\ IsVisible(hid, c)

\* The n-th combination of routes.map(spreads.map(costs.map(...))), and the
\* element made for it.  route, s and c are history.
PairElement(routes, n) ==
    LET m == n - 1
        route == routes[(m \div (Len(Spreads) * Len(Costs))) + 1]
        sp == Spreads[((m % (Len(Spreads) * Len(Costs))) \div Len(Costs)) + 1]
        c == Costs[(m % Len(Costs)) + 1]
    IN  [key |-> ElementKey(route, sp, c),
         aKey |-> MetricKeyOf(sp, route),
         bKey |-> MetricKeyOf(c, route),
         route |-> route, s |-> sp, c |-> c]

\* What MultiRouteHighlighter returns: the elements of the enabled pairs, in
\* map order (a null child renders nothing).
ElementsOf(en, has2, hid) ==
    IF ~ en THEN << >>
    ELSE LET routes == RoutesOf(has2)
         IN  SelectSeq([n \in 1..(Len(routes) * Len(Spreads) * Len(Costs)) |->
                           PairElement(routes, n)],
                       LAMBDA e : PairEnabled(en, hid, e.s, e.c))

\* Every pair reading cost_fixed_r1 for its series B.
PairRowsFixedCost(rows, aKey, bKey) ==
    [i \in 1..Len(rows) |-> [a |-> rows[i][aKey], b |-> rows[i]["cost_fixed_r1"]]]

\* data[i][aKey], data[i][bKey]: the two columns a PairHighlighter reads.
PairRows(rows, aKey, bKey) ==
    [i \in 1..Len(rows) |-> [a |-> rows[i][aKey], b |-> rows[i][bKey]]]

\* The strip loop and the final flush, run to the end.
RECURSIVE RunLoop(_, _, _)
RunLoop(st, segs, n) ==
    IF n > Len(segs) THEN Flush(st)
    ELSE RunLoop(LoopBody(st, segs[n]), segs, n + 1)

\* One whole render of PairHighlighter: the strips, or the TypeError of a
\* missing scale.
PairOutput(rows, sx, sy) ==
    LET none == [state |-> "threw", above |-> << >>, below |-> << >>]
    IN  IF sx = "absent" /\ Len(rows) > 0 THEN none
        ELSE LET conn == ConnectedOf(rows, sx)
             IN  IF Len(conn) >= 2 /\ sy = "absent" THEN none
                 ELSE LET st == RunLoop([current |-> << >>,
                                         currentIsAbove |-> "null",
                                         above |-> << >>, below |-> << >>],
                                        SegmentsOf(conn, sx, sy), 1)
                      IN  [state |-> "rendered",
                           above |-> st.above, below |-> st.below]

\* An element not rendered yet.
Pending == [state |-> "pending", above |-> << >>, below |-> << >>]

\* ------------------------------------------------------------ the inputs
\* No orchestrator: the single pipeline is rendered on its own.
NoMulti ==
    /\ hasRoute2 = FALSE
    /\ hidden = [m \in MetricBases |-> FALSE]
    /\ mdata = << >>
    /\ elements = << >>
    /\ outputs = << >>

\* No state around the single render.
NoAround ==
    /\ memo = << >>
    /\ chart = << >>
    /\ dedup = << >>

\* The pipeline before its first memo.
Fresh ==
    /\ aResolved = << >>
    /\ bResolved = << >>
    /\ connected = << >>
    /\ segments = << >>
    /\ k = 1
    /\ current = << >>
    /\ currentIsAbove = "null"
    /\ above = << >>
    /\ below = << >>
    /\ last = [branch |-> "none", seg |-> 0,
               pre |-> [current |-> << >>, currentIsAbove |-> "null",
                        above |-> << >>, below |-> << >>]]

\* PairHighlighter of App.tsx.
Init ==
    /\ \/ /\ data \in RowSeqs
          /\ xScale \in XScales
          /\ yScale \in YScales
       \/ /\ data \in LongSeqs
          /\ xScale = "point"
          /\ yScale = "clip"
    /\ pc = "connected"
    /\ variant = "pair"
    /\ enabled = TRUE
    /\ connectNulls = TRUE
    /\ Fresh
    /\ NoMulti
    /\ NoAround

\* The three single-pair components: PairHighlighter of App.tsx, and of
\* HighlightAreas.tsx PairHighlighter (always filling) and HighlightAreas
\* with connectNulls set or not.
VariantModes ==
    {<<"pair", TRUE>>, <<"guarded", TRUE>>, <<"areas", TRUE>>, <<"areas", FALSE>>}

\* enabled and the two scales: a rendering overlay under two y scales, a
\* disabled one, and one with either scale absent.
GuardCases ==
    {<<TRUE, "point", "down">>, <<TRUE, "point", "clip">>,
     <<FALSE, "point", "down">>, <<TRUE, "absent", "down">>,
     <<TRUE, "point", "absent">>}

InitAll ==
    /\ data \in RowSeqs
    /\ \E m \in VariantModes : variant = m[1] /\ connectNulls = m[2]
    /\ \E g \in GuardCases : enabled = g[1] /\ xScale = g[2] /\ yScale = g[3]
    /\ pc = "connected"
    /\ Fresh
    /\ NoMulti
    /\ NoAround

\* One combined row of the orchestrator's input: route r1 carries u and v
\* on its spreads and 1, v, 3 on its costs; route r2 carries v and u on its
\* spreads and 3, 1, u on its costs.
MultiRow(u, v) ==
    [key \in MetricKeys |->
        CASE key = "spread_acp_r1" -> u
          [] key = "spread_trayport_r1" -> v
          [] key = "cost_all_r1" -> R(1)
          [] key = "cost_fixed_r1" -> v
          [] key = "cost_variable_r1" -> R(3)
          [] key = "spread_acp_r2" -> v
          [] key = "spread_trayport_r2" -> u
          [] key = "cost_all_r2" -> R(3)
          [] key = "cost_fixed_r2" -> R(1)
          [] key = "cost_variable_r2" -> u]

MultiRows == {MultiRow(u, v) : u \in {R(0), R(2)}, v \in {Null, R(1), R(2)}}

\* MultiRouteHighlighter over MaxMultiRows combined rows.
InitMulti ==
    /\ mdata \in [1..MaxMultiRows -> MultiRows]
    /\ enabled \in BOOLEAN
    /\ hasRoute2 \in BOOLEAN
    /\ hidden \in [MetricBases -> BOOLEAN]
    /\ xScale = "point"
    /\ yScale = "down"
    /\ elements = << >>
    /\ outputs = << >>
    /\ pc = "multi"
    /\ variant = "pair"
    /\ connectNulls = TRUE
    /\ data = << >>
    /\ NoAround
    /\ Fresh

\* ----------------------------------------------------------- the actions
\* The connected memo.  In App.tsx sx is called once per row: with no x
\* scale and at least one row the call throws a TypeError.  The guarded
\* components return null when disabled, without a scale or with fewer
\* than two rows, and again with fewer than two samples.  HighlightAreas of
\* part_002 has the guards and no connected memo: its segments loop reads
\* the rows as they are.
ComputeConnected ==
    /\ pc = "connected"
    /\ IF variant = "pair"
       THEN IF xScale = "absent" /\ Len(data) > 0
            THEN /\ pc' = "threw"
                 /\ UNCHANGED <<aResolved, bResolved, connected>>
            ELSE /\ pc' = "segments"
                 /\ aResolved' = [i \in 1..Len(data) |-> InterpolateA(data, xScale, i)]
                 /\ bResolved' = [i \in 1..Len(data) |-> ForwardFillB(data, i)]
                 /\ connected' = ConnectedOf(data, xScale)
       ELSE IF \/ ~ enabled
               \/ xScale = "absent" \/ yScale = "absent"
               \/ Len(data) < 2
            THEN /\ pc' = "null"
                 /\ UNCHANGED <<aResolved, bResolved, connected>>
            ELSE IF variant = "both"
            THEN /\ aResolved' = [i \in 1..Len(data) |-> data[i].a]
                 /\ bResolved' = [i \in 1..Len(data) |-> data[i].b]
                 /\ connected' = RawSamples(data)
                 /\ pc' = "segments"
            ELSE /\ aResolved' = [i \in 1..Len(data) |-> FilledA(data, connectNulls, i)]
                 /\ bResolved' = [i \in 1..Len(data) |-> FilledB(data, connectNulls, i)]
                 /\ connected' = ConnectedFilled(data, connectNulls)
                 /\ pc' = IF Len(connected') < 2 THEN "null" ELSE "segments"
    /\ UNCHANGED <<data, xScale, yScale, segments, k, current,
                   currentIsAbove, above, below, last, props, multi, around>>

\* The segments memo.  sx and sy are called once there are two samples:
\* in App.tsx, with no y scale the call throws a TypeError.  The guarded
\* components return null when no segment was built.
ComputeSegments ==
    /\ pc = "segments"
    /\ IF variant = "pair"
       THEN IF Len(connected) >= 2 /\ (xScale = "absent" \/ yScale = "absent")
            THEN /\ pc' = "threw"
                 /\ UNCHANGED segments
            ELSE /\ pc' = "strips"
                 /\ segments' = SegmentsOf(connected, xScale, yScale)
       ELSE /\ segments' = IF variant = "both"
                            THEN SegmentsOfBoth(connected, xScale, yScale)
                            ELSE SegmentsOf(connected, xScale, yScale)
            /\ pc' = IF Len(segments') = 0 THEN "null" ELSE "strips"
    /\ UNCHANGED <<data, xScale, yScale, aResolved, bResolved, connected, k,
                   current, currentIsAbove, above, below, last, props, multi, around>>

\* One iteration of the strip loop.
StripStep ==
    /\ pc = "strips"
    /\ k <= Len(segments)
    /\ LET st == LoopBody(StripState, segments[k])
       IN  /\ current' = st.current
           /\ currentIsAbove' = st.currentIsAbove
           /\ above' = st.above
           /\ below' = st.below
    /\ last' = [branch |-> BranchOf(segments[k]), seg |-> k, pre |-> StripState]
    /\ k' = k + 1
    /\ UNCHANGED <<data, xScale, yScale, pc, aResolved, bResolved, connected,
                   segments, props, multi, around>>

\* The flush after the loop; the component returns its paths.
FinalFlush ==
    /\ pc = "strips"
    /\ k > Len(segments)
    /\ LET st == Flush(StripState)
       IN  /\ current' = st.current
           /\ currentIsAbove' = st.currentIsAbove
           /\ above' = st.above
           /\ below' = st.below
    /\ pc' = "done"
    /\ UNCHANGED <<data, xScale, yScale, aResolved, bResolved, connected,
                   segments, k, last, props, multi, around>>

Next == ComputeConnected \/ ComputeSegments \/ StripStep \/ FinalFlush

Spec == Init /\ [][Next]_vars

\* The three single-pair components on the short inputs.
SpecAll == InitAll /\ [][Next]_vars

\* HighlightAreas of part_002 (both-present, no gap filling): rows whose
\* spread or cost may be missing, two rows more than MaxRows so that a row
\* with a missing value can lie between two shaded intervals.
BothRows == [a : {Null, R(0), R(2)}, b : {Null, R(1)}]

InitBoth ==
    /\ data \in UNION {[1..n -> BothRows] : n \in 0..(MaxRows + 2)}
    /\ xScale = "point"
    /\ yScale = "down"
    /\ pc = "connected"
    /\ variant = "both"
    /\ enabled = TRUE
    /\ connectNulls = FALSE
    /\ Fresh
    /\ NoMulti
    /\ NoAround

SpecBoth == InitBoth /\ [][Next]_vars

\* The pipeline's own variables, untouched by the orchestrator's steps.
pipeline == <<data, aResolved, bResolved, connected, segments, k, current,
              currentIsAbove, above, below, last>>

\* MultiRouteHighlighter's render: null when disabled, else the elements.
MultiRender ==
    /\ pc = "multi"
    /\ elements' = ElementsOf(enabled, hasRoute2, hidden)
    /\ outputs' = [n \in 1..Len(elements') |-> Pending]
    /\ pc' = IF Len(elements') = 0 THEN "done" ELSE "pairs"
    /\ UNCHANGED <<xScale, yScale, props, hasRoute2, hidden, mdata, pipeline,
                   around>>

\* The elements still to render.
Unrendered == {n \in 1..Len(elements) : outputs[n].state = "pending"}

\* One child PairHighlighter renders, on the data the props spread hands it
\* and its own aKey and bKey.  The children are taken from either end of
\* the list of those still to render, so that every element is rendered
\* both before and after every other in some run.
PairRender ==
    /\ pc = "pairs"
    /\ \E n \in {m \in Unrendered : \/ \A j \in Unrendered : m <= j
                                   \/ \A j \in Unrendered : j <= m} :
          /\ outputs' = [outputs EXCEPT ![n] =
                            PairOutput(PairRows(mdata, elements[n].aKey,
                                                elements[n].bKey),
                                       xScale, yScale)]
          /\ pc' = IF Unrendered = {n} THEN "done" ELSE "pairs"
    /\ UNCHANGED <<xScale, yScale, props, hasRoute2, hidden, mdata, elements,
                   pipeline, around>>

NextMulti == MultiRender \/ PairRender

SpecMulti == InitMulti /\ [][NextMulti]_vars

\* ------------------------------------------- PairHighlighter across renders
\* A useMemo cell: the dependency list it was computed on, its value, and ver,
\* the identity of the value (0: nothing computed yet; every computation
\* returns a new array).
EmptyCell == [deps |-> << >>, ver |-> 0, val |-> << >>]

\* useMemo(() => value, deps): the cell is kept when every dependency is
\* Object.is-equal to the one it was computed on.
UseMemo(cell, deps, value) ==
    IF cell.ver > 0 /\ cell.deps = deps THEN cell
    ELSE [deps |-> deps, ver |-> cell.ver + 1, val |-> value]

\* [data, aKey, bKey, xAxis?.scale]: arrays and functions by identity,
\* strings by value.
ConnectedDeps == <<memo.ver.data, memo.aKey, memo.bKey, memo.ver.sx>>

\* The segments memo depending on connected and the x scale only.
SegmentsDepsNoY(conn) == <<conn.ver, memo.ver.sx>>

\* [connected, xAxis?.scale, yAxis?.scale]
SegmentsDeps(conn) == <<conn.ver, memo.ver.sx, memo.ver.sy>>

\* [segments]
StripsDeps(segs) == <<segs.ver>>

\* The value of the strips memo.
StripsOf(segs) ==
    LET st == RunLoop([current |-> << >>, currentIsAbove |-> "null",
                       above |-> << >>, below |-> << >>], segs, 1)
    IN  [above |-> st.above, below |-> st.below]

\* The rows handed over between renders: three rows, series b at 1, series
\* a at 0 or 2 with the middle value possibly missing.
MemoData ==
    {<<[a |-> u, b |-> R(1)], [a |-> v, b |-> R(1)], [a |-> w, b |-> R(1)]>> :
        u \in {R(0), R(2)}, v \in {Null, R(0), R(2)}, w \in {R(0), R(2)}}

\* The keys that can be selected, and the scales of successive renders.
MemoKeys == {"a", "b"}
MemoXScales == {"point", "flat"}
MemoYScales == {"down", "clip"}

\* The component is mounted; nothing is rendered yet.
InitMemo ==
    /\ data \in MemoData
    /\ xScale = "point"
    /\ yScale = "down"
    /\ memo = [aKey |-> "a", bKey |-> "b",
               ver |-> [data |-> 0, sx |-> 0, sy |-> 0],
               connected |-> EmptyCell, segments |-> EmptyCell,
               strips |-> EmptyCell,
               rendered |-> FALSE, changes |-> 0]
    /\ chart = << >>
    /\ dedup = << >>
    /\ pc = "memo"
    /\ variant = "pair"
    /\ enabled = TRUE
    /\ connectNulls = TRUE
    /\ Fresh
    /\ NoMulti

\* One render: the three useMemo calls in order.
MemoRender ==
    /\ pc = "memo"
    /\ ~ memo.rendered
    /\ LET conn == UseMemo(memo.connected, ConnectedDeps,
                           ConnectedOf(PairRows(data, memo.aKey, memo.bKey),
                                       xScale))
           segs == UseMemo(memo.segments, SegmentsDeps(conn),
                           SegmentsOf(conn.val, xScale, yScale))
           strips == UseMemo(memo.strips, StripsDeps(segs), StripsOf(segs.val))
       IN  memo' = [memo EXCEPT !.connected = conn, !.segments = segs,
                                !.strips = strips, !.rendered = TRUE]
    /\ UNCHANGED <<data, xScale, yScale, pc, props, multi, chart, dedup,
                   aResolved, bResolved, connected, segments, k, current,
                   currentIsAbove, above, below, last>>

\* The parent hands over a new rows array (its contents may be the same).
ChangeData ==
    /\ pc = "memo"
    /\ memo.changes < MaxChanges
    /\ \E d \in MemoData :
          /\ data' = d
          /\ memo' = [memo EXCEPT !.ver.data = @ + 1, !.rendered = FALSE,
                                  !.changes = @ + 1]
    /\ UNCHANGED <<xScale, yScale, pc, props, multi, chart, dedup,
                   aResolved, bResolved, connected, segments, k, current,
                   currentIsAbove, above, below, last>>

\* The parent selects other keys.
ChangeKeys ==
    /\ pc = "memo"
    /\ memo.changes < MaxChanges
    /\ \E ka \in MemoKeys, kb \in MemoKeys :
          /\ <<ka, kb>> # <<memo.aKey, memo.bKey>>
          /\ memo' = [memo EXCEPT !.aKey = ka, !.bKey = kb,
                                  !.rendered = FALSE, !.changes = @ + 1]
    /\ UNCHANGED <<data, xScale, yScale, pc, props, multi, chart, dedup,
                   aResolved, bResolved, connected, segments, k, current,
                   currentIsAbove, above, below, last>>

\* The chart hands over a new x scale function.
ChangeXScale ==
    /\ pc = "memo"
    /\ memo.changes < MaxChanges
    /\ \E sx \in MemoXScales :
          /\ xScale' = sx
          /\ memo' = [memo EXCEPT !.ver.sx = @ + 1, !.rendered = FALSE,
                                  !.changes = @ + 1]
    /\ UNCHANGED <<data, yScale, pc, props, multi, chart, dedup,
                   aResolved, bResolved, connected, segments, k, current,
                   currentIsAbove, above, below, last>>

\* The chart hands over a new y scale function.
ChangeYScale ==
    /\ pc = "memo"
    /\ memo.changes < MaxChanges
    /\ \E sy \in MemoYScales :
          /\ yScale' = sy
          /\ memo' = [memo EXCEPT !.ver.sy = @ + 1, !.rendered = FALSE,
                                  !.changes = @ + 1]
    /\ UNCHANGED <<data, xScale, pc, props, multi, chart, dedup,
                   aResolved, bResolved, connected, segments, k, current,
                   currentIsAbove, above, below, last>>

NextMemo ==
    MemoRender \/ ChangeData \/ ChangeKeys \/ ChangeXScale \/ ChangeYScale

SpecMemo == InitMemo /\ [][NextMemo]_vars

\* --------------------------------------------------- deduplicateWeekendData
\* A field value: a number, or a string with its spaces.
NumV(n) == [type |-> "number", n |-> n, s |-> ""]
StrV(str) == [type |-> "string", n |-> 0, s |-> str]

\* String.prototype.trim, for spaces.
RECURSIVE Trim(_)
Trim(str) ==
    IF Len(str) > 0 /\ SubSeq(str, 1, 1) = " " THEN Trim(SubSeq(str, 2, Len(str)))
    ELSE IF Len(str) > 0 /\ SubSeq(str, Len(str), Len(str)) = " "
    THEN Trim(SubSeq(str, 1, Len(str) - 1))
    ELSE str

\* typeof v === "number" ? String(v) : String(v).trim()
TextOf(v) == IF v.type = "number" THEN ToString(v.n) ELSE Trim(v.s)

\* A timestampUk is the outcome of dayjs(String(row.timestampUk),
\* "YYYY-MM-DD HH:mm", true): invalid, or a date, held as the number of days
\* since Monday 2024-01-01.
InvalidDate == [valid |-> FALSE, day |-> 0]
DateOf(d) == [valid |-> TRUE, day |-> d]

\* timeStamp.day(): 0 is Sunday, 6 is Saturday.
DayOfWeek(ts) == (ts.day + 1) % 7

\* dow === 0 || dow === 6, with Friday taken for a weekend day too.
IsWeekendFromFriday(ts) == DayOfWeek(ts) \in {0, 5, 6}

\* dow === 0 || dow === 6
IsWeekend(ts) == DayOfWeek(ts) = 0 \/ DayOfWeek(ts) = 6

\* timeStamp.isoWeekYear() and timeStamp.isoWeek(): 2024 and 2025 have 52
\* ISO weeks each, and 2024-01-01 is the Monday of week 1.
IsoWeekYear(ts) == 2024 + (ts.day \div 364)
IsoWeek(ts) == ((ts.day % 364) \div 7) + 1

\* String(n).padStart(2, "0")
PadStart2(str) == IF Len(str) < 2 THEN "0" \o str ELSE str

\* `${timeStamp.isoWeekYear()}-W${String(timeStamp.isoWeek()).padStart(2, "0")}`
WeekId(ts) == ToString(IsoWeekYear(ts)) \o "-W" \o PadStart2(ToString(IsoWeek(ts)))

\* The excluded set with the close price added to it.
ExcludedWithClose == {"timestampUk", "timestampUtc", "counter", "snapshotId", "close"}

\* const excluded
Excluded == {"timestampUk", "timestampUtc", "counter", "snapshotId"}

\* Object.keys(row).sort(): the field names of a history row, sorted.
SortedKeys == <<"close", "snapshotId", "tenor", "timestampUk">>

\* .map(k => `${k}=${...}`).join("|") over the fields left after the filter.
RECURSIVE JoinFields(_, _)
JoinFields(row, keys) ==
    IF keys = << >> THEN ""
    ELSE LET item == Head(keys) \o "=" \o TextOf(row[Head(keys)])
         IN  IF Len(keys) = 1 THEN item
             ELSE item \o "|" \o JoinFields(row, Tail(keys))

BaseKey(row) ==
    JoinFields(row, SelectSeq(SortedKeys, LAMBDA key : key \notin Excluded))

\* The key with the week left out.
DedupKeyNoWeek(row) == BaseKey(row)

\* `${weekId}|${baseKey}`
DedupKey(row) == WeekId(row.timestampUk) \o "|" \o BaseKey(row)

\* The filter callback's result for every row, in order: seen is the set of
\* keys added by the rows before row i.
RECURSIVE KeepFrom(_, _, _)
KeepFrom(rows, i, seen) ==
    IF i > Len(rows) THEN << >>
    ELSE LET ts == rows[i].timestampUk
         IN  IF ~ ts.valid \/ ~ IsWeekend(ts)
             THEN <<TRUE>> \o KeepFrom(rows, i + 1, seen)
             ELSE IF DedupKey(rows[i]) \in seen
             THEN <<FALSE>> \o KeepFrom(rows, i + 1, seen)
             ELSE <<TRUE>> \o KeepFrom(rows, i + 1, seen \cup {DedupKey(rows[i])})

\* The rows of the flags set, in order.
RECURSIVE Filtered(_, _, _)
Filtered(rows, keep, i) ==
    IF i > Len(rows) THEN << >>
    ELSE (IF keep[i] THEN <<rows[i]>> ELSE << >>) \o Filtered(rows, keep, i + 1)

\* deduplicateWeekendData(data)
DeduplicateWeekendData(rows) == Filtered(rows, KeepFrom(rows, 1, {}), 1)

\* The history rows: one with an unparsable timestamp, one of Friday
\* 2024-01-05, one of Saturday 2025-01-04 (week 1 of 2025), and of Saturday
\* 2024-01-06 and Sunday 2024-01-07 (week 1 of 2024) the row and its three
\* variations: another snapshotId, a space after the tenor, another close.
HistoryRow(ts, snap, tenor, close) ==
    [timestampUk |-> ts, snapshotId |-> NumV(snap), tenor |-> StrV(tenor),
     close |-> NumV(close)]

DedupRows ==
    {HistoryRow(ts, 1, "M1", 1) : ts \in {InvalidDate, DateOf(4), DateOf(369)}}
    \cup {HistoryRow(DateOf(d), v[1], v[2], v[3]) :
             d \in {5, 6},
             v \in {<<1, "M1", 1>>, <<2, "M1", 1>>, <<1, "M1 ", 1>>, <<1, "M1", 2>>}}

\* The function is about to be called on its argument.
InitDedup ==
    /\ dedup = [pc |-> "call", input |-> << >>, keep |-> << >>,
                output |-> << >>, again |-> << >>]
    /\ memo = << >>
    /\ chart = << >>
    /\ data = << >>
    /\ xScale = "point"
    /\ yScale = "down"
    /\ pc = "dedup"
    /\ variant = "pair"
    /\ enabled = TRUE
    /\ connectNulls = TRUE
    /\ Fresh
    /\ NoMulti

\* deduplicateWeekendData is called on some rows.  keep is history: the
\* filter callback's result per row.
Deduplicate ==
    /\ pc = "dedup"
    /\ dedup.pc = "call"
    /\ \E n \in 0..MaxDedupRows : \E rows \in [1..n -> DedupRows] :
          dedup' = [pc |-> "once", input |-> rows,
                    keep |-> KeepFrom(rows, 1, {}),
                    output |-> DeduplicateWeekendData(rows),
                    again |-> << >>]
    /\ UNCHANGED <<data, xScale, yScale, pc, props, multi, memo, chart,
                   aResolved, bResolved, connected, segments, k, current,
                   currentIsAbove, above, below, last>>

\* deduplicateWeekendData is called on its own result.
DeduplicateAgain ==
    /\ pc = "dedup"
    /\ dedup.pc = "once"
    /\ dedup' = [dedup EXCEPT !.pc = "twice",
                              !.again = DeduplicateWeekendData(dedup.output)]
    /\ UNCHANGED <<data, xScale, yScale, pc, props, multi, memo, chart,
                   aResolved, bResolved, connected, segments, k, current,
                   currentIsAbove, above, below, last>>

NextDedup == Deduplicate \/ DeduplicateAgain

SpecDedup == InitDedup /\ [][NextDedup]_vars

\* ----------------------------------------------------- CostsAndSpreadsChart
\* type MetricKey
MetricKey == {"spread_acp", "spread_trayport", "cost_all", "cost_fixed",
              "cost_variable", "highlight", "second_route"}

\* The metrics with second_route among them.
MetricsWithSecondRoute ==
    <<"spread_acp", "spread_trayport", "cost_all", "cost_fixed",
      "cost_variable", "second_route">>

\* METRICS: the key of each entry, in order.
METRICS ==
    <<"spread_acp", "spread_trayport", "cost_all", "cost_fixed",
      "cost_variable">>

\* useState: the initial hidden flags.
DefaultHidden ==
    [spread_acp |-> FALSE, spread_trayport |-> TRUE, cost_all |-> FALSE,
     cost_fixed |-> TRUE, cost_variable |-> TRUE, highlight |-> FALSE,
     second_route |-> TRUE]

\* The toggle setting the flag instead of inverting it.
ToggleMetricSet(prev, m) == [prev EXCEPT ![m] = TRUE]

\* setHidden(prev => ({...prev, [m]: !prev[m]}))
ToggleMetric(prev, m) == [prev EXCEPT ![m] = ~ prev[m]]

\* The <Line> elements of a render: one per metric for route r1, and one
\* per metric for route r2, out of the legend, when there is a route 2.
LinesOf(has2) ==
    [n \in 1..Len(METRICS) |->
        [name |-> METRICS[n], dataKey |-> METRICS[n] \o "_r1",
         legendType |-> "line"]]
    \o (IF has2
        THEN [n \in 1..Len(METRICS) |->
                 [name |-> METRICS[n], dataKey |-> METRICS[n] \o "_r2",
                  legendType |-> "none"]]
        ELSE << >>)

\* The payload the Legend hands to its content: an entry per line that is
\* in the legend, its value the line's name.
LegendPayload(lines) ==
    SelectSeq([n \in 1..Len(lines) |->
                  [value |-> lines[n].name, dataKey |-> lines[n].dataKey,
                   legendType |-> lines[n].legendType]],
              LAMBDA e : e.legendType # "none")

\* resolveToggleKey of CustomLegend: the trimmed value, or, when that is
\* empty, keyResolver(dataKey), which the chart does not pass.
ResolveToggleKey(entry) == Trim(entry.value)

\* The keys of the legend's buttons: the resolved keys that are not empty
\* (a set: a key seen before gets no second button).
LegendKeys(payload) ==
    {ResolveToggleKey(payload[n]) : n \in 1..Len(payload)} \ {""}

\* One render of CostsAndSpreadsChart with the flags hid; raw2 tells
\* whether the raw rows of route 2 are there.
ChartRender(hid, raw2) ==
    LET route2 == IF ~ raw2 \/ hid.second_route THEN "null" ELSE "data"
        has2 == route2 # "null"
        overlayHas2 == has2 /\ ~ hid.second_route
    IN  [hidden |-> hid,
         raw2 |-> raw2,
         route2 |-> route2,
         hasRoute2 |-> has2,
         combined |-> IF has2 THEN <<"r1", "r2">> ELSE <<"r1">>,
         legend |-> LegendKeys(LegendPayload(LinesOf(has2))),
         overlay |-> [enabled |-> ~ hid.highlight,
                      hasRoute2 |-> overlayHas2,
                      elements |-> ElementsOf(~ hid.highlight, overlayHas2, hid)]]

\* History of the last two toggles: the metric, and the flags before it.
NoToggle == [m |-> "none", pre |-> DefaultHidden]

\* The chart after its first render.
InitChart ==
    /\ \E raw2 \in BOOLEAN :
          chart = [view |-> ChartRender(DefaultHidden, raw2),
                   last |-> NoToggle, last2 |-> NoToggle]
    /\ memo = << >>
    /\ dedup = << >>
    /\ data = << >>
    /\ xScale = "point"
    /\ yScale = "down"
    /\ pc = "chart"
    /\ variant = "pair"
    /\ enabled = TRUE
    /\ connectNulls = TRUE
    /\ Fresh
    /\ NoMulti

\* toggleMetric(m) and the render that follows it.
Toggle(m) ==
    /\ pc = "chart"
    /\ chart' = [view |-> ChartRender(ToggleMetric(chart.view.hidden, m),
                                      chart.view.raw2),
                 last |-> [m |-> m, pre |-> chart.view.hidden],
                 last2 |-> chart.last]
    /\ UNCHANGED <<data, xScale, yScale, pc, props, multi, memo, dedup,
                   aResolved, bResolved, connected, segments, k, current,
                   currentIsAbove, above, below, last>>

\* A click on one of the legend's buttons.
LegendToggle == \E m \in chart.view.legend : Toggle(m)

\* toggleMetric called with any metric key.
AnyToggle == \E m \in MetricKey : Toggle(m)

\* The chart driven by its legend.
SpecChart == InitChart /\ [][LegendToggle]_vars

\* toggleMetric over all its arguments.
SpecToggle == InitChart /\ [][AnyToggle]_vars

\* ================================================================ claims
\* The emitted strips, of both collections.
Emitted == {above[j] : j \in 1..Len(above)} \cup {below[j] : j \in 1..Len(below)}

\* A strip point that is a resolved sample (not a crossing).
IsSample(p) == p.at[2] = 1

\* C1. Strip minimality: in every state of the strip loop and after it,
\* every strip in the above or the below collection has at least 2 points.
C1_StripMinimality == \A strip \in Emitted : Len(strip) >= 2

\* C1 witness: a flush met an open strip of a single point and dropped it
\* (the open strip had the other sign than the segment the loop went on
\* with), and strips were emitted.
C1_Witness ==
    /\ pc = "done"
    /\ Emitted # {}
    /\ last.branch = "same"
    /\ last.pre.currentIsAbove # "null"
    /\ last.pre.currentIsAbove # SignOf(segments[last.seg].above0)
    /\ Len(above) + Len(below) = Len(last.pre.above) + Len(last.pre.below) + 1

\* --- C2
\* The emitted strips in one sequence (above first), and a strip's x-range.
AllStrips == above \o below
StripLo(strip) == strip[1].x
StripHi(strip) == strip[Len(strip)].x

\* The render x of the first and of the last resolved sample.
FirstX == Sx(xScale, connected[1].timestampUk)
LastX == Sx(xScale, connected[Len(connected)].timestampUk)

\* The union of the strips' x-ranges is [FirstX, LastX].
Covers ==
    /\ \E strip \in Emitted : StripLo(strip) = FirstX
    /\ \A strip \in Emitted :
          /\ RLe(FirstX, StripLo(strip))
          /\ RLe(StripHi(strip), LastX)
          /\ \/ StripHi(strip) = LastX
             \/ \E next \in Emitted : /\ RLe(StripLo(next), StripHi(strip))
                                      /\ RLt(StripHi(strip), StripHi(next))

\* Two distinct strips share at most a boundary x.
NoOverlap ==
    \A i, j \in 1..Len(AllStrips) :
        i < j => \/ RLe(StripHi(AllStrips[i]), StripLo(AllStrips[j]))
                 \/ RLe(StripHi(AllStrips[j]), StripLo(AllStrips[i]))

\* No pair of adjacent resolved samples was dropped for a non-finite
\* coordinate.
NoDrop == Len(segments) = Len(connected) - 1

\* C2 as stated. Monotone coverage: for any run with at least two resolved
\* samples, the union of the x-ranges of all emitted strips is the x-range
\* from the first to the last resolved sample, and two distinct strips
\* overlap in at most a shared boundary x.
C2_CoverageAsStated ==
    (pc = "done" /\ Len(connected) >= 2) => (Covers /\ NoOverlap)

\* C2 (amended). Monotone coverage holds for every run with at least two
\* resolved samples in which no pair of adjacent samples is dropped for a
\* non-finite projected coordinate.
C2_Coverage ==
    (pc = "done" /\ Len(connected) >= 2 /\ NoDrop) => (Covers /\ NoOverlap)

\* C2 witness: a finished run over three or more samples, none dropped,
\* with a crossing, that emitted strips of both classes.
C2_Witness ==
    /\ pc = "done" /\ Len(connected) >= 3 /\ NoDrop
    /\ last.branch = "cross"
    /\ Len(above) >= 1 /\ Len(below) >= 1
    /\ Len(above) + Len(below) >= 3

\* --- C3
\* A - B of the resolved samples joined by straight lines, at the position
\* pos on the axis of connected (sample i at R(i)).
DiffAtSample(i) == RSub(connected[i].a, connected[i].b)
DiffAt(pos) ==
    LET i == pos[1] \div pos[2]
        frac == RSub(pos, R(i))
    IN  IF frac = Zero THEN DiffAtSample(i)
        ELSE RAdd(DiffAtSample(i),
                  RMul(frac, RSub(DiffAtSample(i + 1), DiffAtSample(i))))

\* The positions between u and v at which the joined series bend, with u
\* and v; and the straight pieces between them.
Breaks(u, v) ==
    {u, v} \cup {R(m) : m \in {n \in 1..Len(connected) : RLt(u, R(n)) /\ RLt(R(n), v)}}
Pieces(u, v) ==
    {pq \in Breaks(u, v) \X Breaks(u, v) :
        /\ RLt(pq[1], pq[2])
        /\ ~ \E m \in Breaks(u, v) : RLt(pq[1], m) /\ RLt(m, pq[2])}

\* A > B on the open interval (u, v); A <= B on it.
AboveOn(u, v) ==
    /\ \A pq \in Pieces(u, v) :
          /\ RLe(Zero, DiffAt(pq[1])) /\ RLe(Zero, DiffAt(pq[2]))
          /\ ~ (DiffAt(pq[1]) = Zero /\ DiffAt(pq[2]) = Zero)
    /\ \A m \in Breaks(u, v) \ {u, v} : RLt(Zero, DiffAt(m))
BelowOn(u, v) ==
    \A pq \in Pieces(u, v) :
        RLe(DiffAt(pq[1]), Zero) /\ RLe(DiffAt(pq[2]), Zero)

\* C3 as stated, on the runs under the linear y scale (where a crossing in
\* pixels is the crossing in values). Between every two consecutive points
\* of an emitted strip the linearly interpolated A is strictly greater than
\* B on the open interval if the strip is in the above collection, and
\* A <= B there if it is in the below collection.
C3_ShadedBySign ==
    yScale = "down" =>
    /\ \A n \in 1..Len(above) : \A j \in 1..(Len(above[n]) - 1) :
          AboveOn(above[n][j].at, above[n][j + 1].at)
    /\ \A n \in 1..Len(below) : \A j \in 1..(Len(below[n]) - 1) :
          BelowOn(below[n][j].at, below[n][j + 1].at)

\* --- C4
\* The dominance class of the resolved sample a strip point was taken from.
SampleSign(p) == SignOf(Above(connected[p.at[1]]))

IsFallbackStrip(strip) ==
    /\ Len(strip) = 2
    /\ \E n \in 1..Len(segments) :
          /\ BranchOf(segments[n]) = "fallback"
          /\ strip = <<Point0(segments[n]), Point1(segments[n])>>

\* The sample points of a strip have the sign sign, but for the second
\* point of a fallback strip.
OneSign(strip, sign) ==
    \A j \in 1..Len(strip) :
        IsSample(strip[j]) =>
            \/ SampleSign(strip[j]) = sign
            \/ j = 2 /\ IsFallbackStrip(strip)

StepSeg == segments[last.seg]
NewAbove == SubSeq(above, Len(last.pre.above) + 1, Len(above))
NewBelow == SubSeq(below, Len(last.pre.below) + 1, Len(below))
NewIn(sign) == IF sign = "above" THEN NewAbove ELSE NewBelow

\* The open strip the step started from, as a flush emits it to the
\* collection sign: unchanged, and only if it has 2 or more points.
FlushedTo(sign) ==
    IF last.pre.currentIsAbove = sign /\ Len(last.pre.current) >= 2
    THEN <<last.pre.current>> ELSE << >>

\* What the step appended to the collection sign after that strip.
AfterFlush(sign) ==
    SubSeq(NewIn(sign), Len(FlushedTo(sign)) + 1, Len(NewIn(sign)))

C7_AbsentScaleEmpty ==
    (xScale = "absent" \/ yScale = "absent") =>
        (pc # "threw" /\ above = << >> /\ below = << >>)

\* --- C8
\* C8. Crossing bound: for every segment, splitAtCrossing returns a point
\* only with t = diff0 / (diff0 - diff1) strictly between 0 and 1, and
\* returns nothing when diff0 = diff1 or t <= 0 or t >= 1.
C8_CrossingBound ==
    \A n \in 1..Len(segments) :
        LET s == segments[n]
            diff0 == RSub(s.yB0, s.yA0)
            diff1 == RSub(s.yB1, s.yA1)
            t == RDiv(diff0, RSub(diff0, diff1))
            cross == SplitAtCrossing(s)
        IN  /\ cross # Null => (cross.t = t /\ RLt(Zero, t) /\ RLt(t, One))
            /\ (diff0 = diff1 \/ RLe(t, Zero) \/ RLe(One, t)) => cross = Null

\* C8 witness: the segments hold one with a crossing returned and one with
\* t = 0 or t = 1, for which nothing is returned.
C8_Witness ==
    /\ \E n \in 1..Len(segments) : SplitAtCrossing(segments[n]) # Null
    /\ \E n \in 1..Len(segments) :
          /\ CrossT(segments[n]) \in {Zero, One}
          /\ SplitAtCrossing(segments[n]) = Null

\* --- C9
\* The nearest rows before and after row i with a raw A value.
LeftOf(i) ==
    {j \in 1..(i - 1) : /\ IsNumber(data[j].a)
                        /\ \A m \in (j + 1)..(i - 1) : ~ IsNumber(data[m].a)}
RightOf(i) ==
    {j \in (i + 1)..Len(data) : /\ IsNumber(data[j].a)
                                /\ \A m \in (i + 1)..(j - 1) : ~ IsNumber(data[m].a)}

\* The value the Interpolate policy is to give row i between rows l and r;
\* Null where the x positions coincide or the quotient is no finite number.
Interpolated(l, r, i) ==
    LET xL == Sx(xScale, l)
        xR == Sx(xScale, r)
        xI == Sx(xScale, i)
        t == RDiv(RSub(xI, xL), RSub(xR, xL))
    IN  IF xL = xR \/ ~ IsFinite(t) THEN Null
        ELSE RAdd(data[l].a, RMul(t, RSub(data[r].a, data[l].a)))

C10_AnchorIdentity ==
    (pc # "connected" /\ Len(aResolved) = Len(data)) =>
        \A i \in 1..Len(data) :
            IsNumber(data[i].a) => aResolved[i] = data[i].a

\* C10 witness: a row with a raw A value between two rows with other raw
\* values was resolved.
C10_Witness ==
    /\ pc = "segments"
    /\ \E i \in 2..(Len(data) - 1) :
          /\ IsNumber(data[i].a)
          /\ IsNumber(data[i - 1].a) /\ data[i - 1].a # data[i].a
          /\ IsNumber(data[i + 1].a) /\ data[i + 1].a # data[i].a
          /\ aResolved[i] = data[i].a

\* --- C11
\* The nearest row before row i with a raw B value.
LeftOfB(i) ==
    {j \in 1..(i - 1) : /\ IsNumber(data[j].b)
                        /\ \A m \in (j + 1)..(i - 1) : ~ IsNumber(data[m].b)}

\* C11. Forward-Fill policy: a missing value at row i resolves to the most
\* recent numeric raw value at an earlier row of the same series, and stays
\* unresolved at every row before the first numeric raw value of that
\* series.  The policy is in force for series B in PairHighlighter of
\* App.tsx, and for both series in the components of HighlightAreas.tsx
\* (in HighlightAreas, when connectNulls is set).
C11_ForwardFill ==
    (pc # "connected" /\ Len(bResolved) = Len(data)) =>
        /\ (variant = "pair" \/ connectNulls) =>
              \A i \in 1..Len(data) :
                  ~ IsNumber(data[i].b) =>
                      IF LeftOfB(i) = {} THEN bResolved[i] = Null
                      ELSE \A l \in LeftOfB(i) : bResolved[i] = data[l].b
        /\ (variant # "pair" /\ connectNulls) =>
              \A i \in 1..Len(data) :
                  ~ IsNumber(data[i].a) =>
                      IF LeftOf(i) = {} THEN aResolved[i] = Null
                      ELSE \A l \in LeftOf(i) : aResolved[i] = data[l].a

\* C11 witness: a missing B value was filled from the row before it, whose
\* value is not the series' first.
C11_Witness ==
    /\ pc = "segments"
    /\ variant = "pair" \/ connectNulls
    /\ \E i \in 3..Len(data) :
          /\ ~ IsNumber(data[i].b)
          /\ IsNumber(data[i - 1].b) /\ IsNumber(data[1].b)
          /\ data[1].b # data[i - 1].b
          /\ bResolved[i] = data[i - 1].b

\* --- C12
\* The rows at which both series resolved to a number.
BothResolved ==
    {i \in 1..Len(data) : IsNumber(aResolved[i]) /\ IsNumber(bResolved[i])}

\* C12. A resolved sample is emitted for row i iff both series resolve to a
\* number at i; the samples are a subsequence of the rows in row order (no
\* reordering, no duplicates), each with the two resolved numbers.
C12_ConnectedSubsequence ==
    (pc # "connected" /\ Len(aResolved) = Len(data)) =>
        /\ Len(connected) = Cardinality(BothResolved)
        /\ \A j \in 1..Len(connected) :
              /\ connected[j].timestampUk \in BothResolved
              /\ connected[j].a = aResolved[connected[j].timestampUk]
              /\ connected[j].b = bResolved[connected[j].timestampUk]
        /\ \A j \in 1..(Len(connected) - 1) :
              connected[j].timestampUk < connected[j + 1].timestampUk

\* C12 witness: of three rows two resolved, one of them by interpolation
\* or by forward fill, and one row gave no sample.
C12_Witness ==
    /\ pc = "segments"
    /\ Len(data) = 3 /\ Len(connected) = 2
    /\ \E j \in 1..2 :
          \/ ~ IsNumber(data[connected[j].timestampUk].a)
          \/ ~ IsNumber(data[connected[j].timestampUk].b)

\* --- C13
\* a > b on two finite rationals, written out.
Greater(a, b) == a[1] * b[2] > b[1] * a[2]

\* C13. Dominance partition: for every segment endpoint, built from the
\* resolved sample (a, b), the flag is above iff a > b strictly; equal
\* values give below.
C13_DominancePartition ==
    \A n \in 1..Len(segments) :
        LET s == segments[n]
            p0 == connected[s.i]
            p1 == connected[s.i + 1]
        IN  /\ s.above0 = Greater(p0.a, p0.b)
            /\ s.above1 = Greater(p1.a, p1.b)
            /\ p0.a = p0.b => ~ s.above0
            /\ p1.a = p1.b => ~ s.above1

\* C13 witness: the segments hold an endpoint with a = b, one with a > b
\* and one with a < b.
C13_Witness ==
    /\ \E n \in 1..Len(segments) :
          connected[segments[n].i].a = connected[segments[n].i].b
    /\ \E n \in 1..Len(segments) :
          Greater(connected[segments[n].i].a, connected[segments[n].i].b)
    /\ \E n \in 1..Len(segments) :
          Greater(connected[segments[n].i + 1].b, connected[segments[n].i + 1].a)

\* --- C14
\* The strip points taken from segment endpoints, of the emitted strips and
\* of the open one.
EndpointPoints ==
    {p \in UNION {{q[j] : j \in 1..Len(q)} : q \in Emitted \cup {current}} :
        IsSample(p)}

\* The resolved sample a strip point was taken from.
SampleOf(p) == connected[p.at[1]]

\* yTop is the render-y of the dominant series, yBot of the other.
DominantOnTop(p) ==
    LET smp == SampleOf(p)
        dom == IF Greater(smp.a, smp.b) THEN smp.a ELSE smp.b
        oth == IF Greater(smp.a, smp.b) THEN smp.b ELSE smp.a
    IN  p.yTop = Sy(yScale, dom) /\ p.yBot = Sy(yScale, oth)

\* yTop is the render-y of series A (the spread), yBot of series B (the cost).
SeriesAOnTop(p) ==
    p.yTop = Sy(yScale, SampleOf(p).a) /\ p.yBot = Sy(yScale, SampleOf(p).b)

\* C14 as stated. Every strip point taken from a segment endpoint has yTop
\* equal to the render-y of the series dominant at that endpoint (A when
\* a > b, otherwise B) and yBot equal to the render-y of the other series,
\* in every component.
C14_DominantOnTop == \A p \in EndpointPoints : DominantOnTop(p)

\* C14, amended. In the two PairHighlighter components every strip point
\* taken from a segment endpoint has the dominant series' render-y as yTop
\* and the other's as yBot; in HighlightAreas yTop is the render-y of the
\* spread and yBot that of the cost at every endpoint, whichever dominates.
C14_TopBot ==
    \A p \in EndpointPoints :
        IF variant = "areas" THEN SeriesAOnTop(p) ELSE DominantOnTop(p)

\* C14 witness: HighlightAreas emitted a below strip with an endpoint where
\* the spread is strictly under the cost and yTop is the spread's render-y,
\* not the cost's.
C14_Witness ==
    /\ variant = "areas" /\ pc = "done"
    /\ \E n \in 1..Len(below) : \E j \in 1..Len(below[n]) :
          LET p == below[n][j]
          IN  /\ IsSample(p)
              /\ Greater(SampleOf(p).b, SampleOf(p).a)
              /\ p.yTop = Sy(yScale, SampleOf(p).a)
              /\ p.yTop # p.yBot

\* --- C15
\* The six projected coordinates of the pair connected[i], connected[i + 1]
\* are finite.
PairFinite(i) ==
    \A v \in {Sx(xScale, connected[i].timestampUk),
               Sx(xScale, connected[i + 1].timestampUk),
               Sy(yScale, connected[i].a), Sy(yScale, connected[i + 1].a),
               Sy(yScale, connected[i].b), Sy(yScale, connected[i + 1].b)} :
        v[2] # 0

\* The pairs of adjacent samples built into segments are those with six
\* finite coordinates, in order.
BuiltIffFinite ==
    /\ {segments[n].i : n \in 1..Len(segments)} =
          {i \in 1..(Len(connected) - 1) : PairFinite(i)}
    /\ \A n \in 1..(Len(segments) - 1) : segments[n].i < segments[n + 1].i

\* The span of segment n on the axis of connected is covered by the emitted
\* strips: by one strip, or by two that meet inside it.
Shaded(n) ==
    LET lo == R(segments[n].i)
        hi == R(segments[n].i + 1)
        First(strip) == strip[1].at
        Last(strip) == strip[Len(strip)].at
    IN  \E s1 \in Emitted :
            /\ RLe(First(s1), lo) /\ RLt(lo, Last(s1))
            /\ \/ RLe(hi, Last(s1))
               \/ \E s2 \in Emitted :
                     RLe(First(s2), Last(s1)) /\ RLe(hi, Last(s2))

\* C15 as stated. A pair of adjacent resolved samples yields a segment iff
\* all six projected coordinates are finite, and dropping a pair does not
\* stop later pairs from being built into segments and shaded: in a
\* finished run every segment is shaded.
C15_DropNotFatal ==
    /\ pc \in {"strips", "done"} => BuiltIffFinite
    /\ pc = "done" => \A n \in 1..Len(segments) : Shaded(n)

\* --- C16
\* C16. If fewer than two rows yield a resolved sample (in particular for 0
\* or 1 input rows), no segment is built and no strip is opened or emitted.
C16_FewerThanTwo ==
    (Len(data) < 2 \/ (pc # "connected" /\ Len(connected) < 2)) =>
        /\ Len(connected) < 2
        /\ segments = << >>
        /\ current = << >>
        /\ Emitted = {}

\* C16 witness: a finished run over two or more rows of which one resolved.
C16_Witness ==
    /\ pc \in {"done", "null"}
    /\ Len(data) >= 2
    /\ Len(connected) = 1

\* --- C17
\* The strip of all resolved samples in order, for the class sign.
WholeStrip(sign) ==
    [j \in 1..Len(connected) |->
        LET yA == Sy(yScale, connected[j].a)
            yB == Sy(yScale, connected[j].b)
        IN  [x |-> Sx(xScale, connected[j].timestampUk),
             yTop |-> IF sign = "above" THEN yA ELSE yB,
             yBot |-> IF sign = "above" THEN yB ELSE yA,
             at |-> R(j)]]

\* C17. With at least two resolved samples and all projected coordinates
\* finite: if A > B strictly at every sample the output is exactly one
\* above strip, its points all resolved samples in order, and no below
\* strip; if A <= B at every sample, exactly one below strip and no above
\* strip.
C17_OneStrip ==
    (pc = "done" /\ Len(connected) >= 2
       /\ \A i \in 1..(Len(connected) - 1) : PairFinite(i)) =>
        /\ (\A j \in 1..Len(connected) : Greater(connected[j].a, connected[j].b))
              => (above = <<WholeStrip("above")>> /\ below = << >>)
        /\ (\A j \in 1..Len(connected) : ~ Greater(connected[j].a, connected[j].b))
              => (below = <<WholeStrip("below")>> /\ above = << >>)

\* C17 witness: a finished run over three or more samples, A > B at each,
\* that emitted one above strip.
C17_Witness ==
    /\ pc = "done" /\ Len(connected) >= 3
    /\ \A i \in 1..(Len(connected) - 1) : PairFinite(i)
    /\ \A j \in 1..Len(connected) : Greater(connected[j].a, connected[j].b)
    /\ Len(above) = 1

\* --- C18
\* The routes that are available.
AvailableRoutes == IF hasRoute2 THEN {"r1", "r2"} ELSE {"r1"}

\* The combinations (route, spread base, cost base) that are to get a
\* pipeline: overlay enabled, neither base hidden.
Wanted ==
    {combo \in AvailableRoutes \X {"spread_acp", "spread_trayport"}
                \X {"cost_all", "cost_fixed", "cost_variable"} :
        enabled /\ ~ hidden[combo[2]] /\ ~ hidden[combo[3]]}

\* The combinations a pipeline was instantiated for.
Instantiated == {<<elements[n].route, elements[n].s, elements[n].c>> :
                    n \in 1..Len(elements)}

\* C18. Multi-pair orchestrator: for every available route (r1, and r2 only
\* when route 2 is available), every spread base and every cost base, a
\* pair pipeline is instantiated (once, on that combination's two metric
\* keys) iff the overlay is enabled and neither base is hidden; hence at
\* most 6 pipelines per route and none when the overlay is disabled.
C18_Orchestrator ==
    pc \in {"pairs", "done"} =>
        /\ Instantiated = Wanted
        /\ Len(elements) = Cardinality(Wanted)
        /\ \A n \in 1..Len(elements) :
              /\ elements[n].aKey = elements[n].s \o "_" \o elements[n].route
              /\ elements[n].bKey = elements[n].c \o "_" \o elements[n].route
        /\ \A r \in {"r1", "r2"} :
              Cardinality({n \in 1..Len(elements) : elements[n].route = r}) <= 6
        /\ ~ enabled => elements = << >>

\* C18 witness: an enabled overlay with route 2, one spread and one cost
\* hidden, rendered its 2 x 1 x 2 pipelines.
C18_Witness ==
    /\ pc = "done" /\ enabled /\ hasRoute2
    /\ hidden["spread_acp"] /\ ~ hidden["spread_trayport"]
    /\ hidden["cost_fixed"] /\ ~ hidden["cost_all"] /\ ~ hidden["cost_variable"]
    /\ Len(elements) = 4
    /\ \A n \in 1..Len(elements) : outputs[n].state = "rendered"

\* --- C19
\* C19. Distinct (route, spread base, cost base) combinations always receive
\* distinct identity strings, and a combination's identity is the same in
\* every render: it is the string route-spread-cost, whatever the
\* visibility flags and whichever other combinations are rendered.
C19_Identity ==
    /\ \A n, m \in 1..Len(elements) :
          elements[n].key = elements[m].key =>
              /\ n = m
              /\ elements[n].route = elements[m].route
              /\ elements[n].s = elements[m].s
              /\ elements[n].c = elements[m].c
    /\ \A n \in 1..Len(elements) :
          elements[n].key =
              elements[n].route \o "-" \o elements[n].s \o "-" \o elements[n].c

\* C19 witness: all twelve combinations rendered in one render.
C19_Witness ==
    /\ pc = "done"
    /\ Len(elements) = 12
    /\ Cardinality({elements[n].key : n \in 1..Len(elements)}) = 12

\* --- C20
\* The two columns of the combination of element n, with the rows' x-keys
\* (their positions).
OwnColumns(n) ==
    [i \in 1..Len(mdata) |->
        [a |-> mdata[i][elements[n].s \o "_" \o elements[n].route],
         b |-> mdata[i][elements[n].c \o "_" \o elements[n].route]]]

C21_MemoTransparent ==
    (pc = "memo" /\ memo.rendered) =>
        LET rows == [i \in 1..Len(data) |->
                        [a |-> data[i][memo.aKey], b |-> data[i][memo.bKey]]]
            out == PairOutput(rows, xScale, yScale)
        IN  /\ memo.connected.val = ConnectedOf(rows, xScale)
            /\ memo.segments.val =
                   SegmentsOf(ConnectedOf(rows, xScale), xScale, yScale)
            /\ memo.strips.val = [above |-> out.above, below |-> out.below]

\* C21 witness: a render after a change of the y scale alone kept the
\* resolved samples of the first render and recomputed segments and strips,
\* which differ from those of the render before.
C21_Witness ==
    /\ pc = "memo" /\ memo.rendered
    /\ memo.changes >= 1
    /\ memo.connected.ver = 1
    /\ memo.segments.ver = 2
    /\ memo.strips.ver = 2
    /\ yScale = "clip"
    /\ Len(memo.connected.val) = 3
    /\ Len(memo.segments.val) = 1

\* --- C22
\* The row is of a Monday to Friday / of a Saturday or Sunday.
WeekdayRow(row) == row.timestampUk.valid /\ DayOfWeek(row.timestampUk) \in 1..5
WeekendRow(row) == row.timestampUk.valid /\ DayOfWeek(row.timestampUk) \in {0, 6}

\* Two rows of the same ISO week of the same ISO year.
SameIsoWeek(r1, r2) ==
    /\ IsoWeek(r1.timestampUk) = IsoWeek(r2.timestampUk)
    /\ IsoWeekYear(r1.timestampUk) = IsoWeekYear(r2.timestampUk)

\* The fields of a history row that the comparison reads, and two rows
\* whose compared fields have the same text.
ComparedFields == {"close", "tenor"}
SameCompared(r1, r2) ==
    \A f \in ComparedFields : TextOf(r1[f]) = TextOf(r2[f])

\* Row j is an earlier weekend row of row i's ISO week with equal compared
\* fields, row i being a weekend row too.
Twin(rows, i, j) ==
    /\ j < i
    /\ WeekendRow(rows[i]) /\ WeekendRow(rows[j])
    /\ SameIsoWeek(rows[i], rows[j])
    /\ SameCompared(rows[i], rows[j])

Deduplicated == pc = "dedup" /\ dedup.pc # "call"

NonTimestampFields == {"snapshotId", "tenor", "close"}

\* Row j is an earlier weekend row of weekend row i's ISO week with
\* identical values in every non-timestamp field.
IdenticalTwin(rows, i, j) ==
    /\ j < i
    /\ WeekendRow(rows[i]) /\ WeekendRow(rows[j])
    /\ SameIsoWeek(rows[i], rows[j])
    /\ \A f \in NonTimestampFields : rows[i][f] = rows[j][f]

\* C23 as stated: a row is removed only if it is a weekend row and an
\* earlier weekend row of the same ISO week has identical values in every
\* non-timestamp field.
C23_IdenticalOnly ==
    Deduplicated =>
        \A i \in 1..Len(dedup.input) :
            ~ dedup.keep[i] =>
                \E j \in 1..Len(dedup.input) : IdenticalTwin(dedup.input, i, j)

\* C23. A row is removed only if it is a weekend row and an earlier weekend
\* row of the same ISO week has, in every field other than timestampUk,
\* timestampUtc, counter and snapshotId, the same text: String(v) of a
\* number, the trimmed String(v) of anything else.  A weekend row that
\* differs in the text of such a field from every earlier weekend row of
\* its ISO week is kept.
C23_OnlyTwins ==
    Deduplicated =>
        \A i \in 1..Len(dedup.input) :
            ~ dedup.keep[i] =>
                \E j \in 1..Len(dedup.input) : Twin(dedup.input, i, j)

\* C23 witness: a Sunday row is removed after a Saturday row of its week
\* from which it differs in snapshotId and in a space after the tenor, and
\* a weekend row of that week with another close price is kept.
C23_Witness ==
    /\ Deduplicated
    /\ Len(dedup.input) = 3
    /\ Twin(dedup.input, 2, 1)
    /\ dedup.input[1].snapshotId # dedup.input[2].snapshotId
    /\ dedup.input[1].tenor # dedup.input[2].tenor
    /\ WeekendRow(dedup.input[3]) /\ SameIsoWeek(dedup.input[3], dedup.input[1])
    /\ dedup.input[3].close # dedup.input[1].close
    /\ dedup.keep = <<TRUE, FALSE, TRUE>>

\* --- C30
\* sub is a subsequence of full: its rows are rows of full in order.
RECURSIVE IsSubsequence(_, _)
IsSubsequence(sub, full) ==
    IF sub = << >> THEN TRUE
    ELSE IF full = << >> THEN FALSE
    ELSE IF Head(sub) = Head(full) THEN IsSubsequence(Tail(sub), Tail(full))
    ELSE IsSubsequence(sub, Tail(full))

\* An earlier row of the same (ISO week, compared fields) group.
SameGroup(rows, i, j) ==
    /\ j < i
    /\ rows[i].timestampUk.valid /\ rows[j].timestampUk.valid
    /\ SameIsoWeek(rows[i], rows[j])
    /\ SameCompared(rows[i], rows[j])

\* C30. The result is a subsequence of the input in the original order, of
\* as many rows as were kept; the first row of every (ISO week, compared
\* fields) group and every row with an unparsable timestamp is kept; and
\* the function applied to its own result returns that result.
C30_SubsequenceIdempotent ==
    Deduplicated =>
        /\ IsSubsequence(dedup.output, dedup.input)
        /\ Len(dedup.output) =
               Cardinality({i \in 1..Len(dedup.input) : dedup.keep[i]})
        /\ \A i \in 1..Len(dedup.input) :
               /\ ~ dedup.input[i].timestampUk.valid => dedup.keep[i]
               /\ (\A j \in 1..Len(dedup.input) :
                      ~ SameGroup(dedup.input, i, j)) => dedup.keep[i]
        /\ dedup.pc = "twice" => dedup.again = dedup.output

\* C30 witness: of two identical rows with an unparsable timestamp and two
\* weekend rows of one group, the result has the first three, and the
\* second call has returned them again.
C30_Witness ==
    /\ pc = "dedup" /\ dedup.pc = "twice"
    /\ Len(dedup.input) = 4
    /\ ~ dedup.input[1].timestampUk.valid /\ dedup.input[2] = dedup.input[1]
    /\ Twin(dedup.input, 4, 3)
    /\ dedup.output = SubSeq(dedup.input, 1, 3)
    /\ dedup.again = dedup.output

\* --- C25
\* Rows i and i + 1 both have a raw number for both series.
RawInterval(i) ==
    /\ i \in 1..(Len(data) - 1)
    /\ IsNumber(data[i].a) /\ IsNumber(data[i].b)
    /\ IsNumber(data[i + 1].a) /\ IsNumber(data[i + 1].b)

\* Points p and q lie in one interval of adjacent rows that both have raw
\* numbers: the two endpoints, or an endpoint and the crossing.
WithinRawInterval(p, q) ==
    \E i \in 1..(Len(data) - 1) :
        /\ RawInterval(i)
        /\ RLe(R(i), p.at) /\ RLe(p.at, q.at) /\ RLe(q.at, R(i + 1))

\* C25. In the both-present variant every two consecutive points of an
\* emitted strip are the two endpoints, or an endpoint and the crossing, of
\* one interval of adjacent rows at which both series have raw numbers: no
\* strip spans an interval with a missing value.
C25_NoStripOverMissing ==
    variant = "both" =>
        \A strip \in Emitted : \A j \in 1..(Len(strip) - 1) :
            WithinRawInterval(strip[j], strip[j + 1])

\* --- C24
\* The segment of the last loop step follows a segment that took the
\* fallback branch.
AfterFallback ==
    /\ last.seg >= 2
    /\ BranchOf(segments[last.seg - 1]) = "fallback"

\* The first strip begun by the last loop step: the first one it emitted of
\* the sign of the segment's first endpoint, or else the open strip.
StripBegun ==
    LET s == segments[last.seg]
        now == IF s.above0 THEN above ELSE below
        pre == IF s.above0 THEN last.pre.above ELSE last.pre.below
    IN  IF Len(now) > Len(pre) THEN now[Len(pre) + 1] ELSE current

\* C24. After the loop step of a sign-change segment without a solvable
\* crossing no strip is open, and the strip begun by the step of the next
\* segment starts at that segment's first endpoint.
C24_FallbackBreak ==
    /\ last.branch = "fallback" =>
           current = << >> /\ currentIsAbove = "null"
    /\ AfterFallback =>
           /\ last.pre.current = << >>
           /\ Len(StripBegun) >= 2
           /\ StripBegun[1] = Point0(segments[last.seg])

\* C24 witness: the step after a fallback segment was a same-sign segment,
\* and the open strip holds its two endpoints, the first strip emitted
\* being the fallback's.
C24_Witness ==
    /\ pc = "strips"
    /\ AfterFallback
    /\ last.branch = "same"
    /\ current = <<Point0(segments[last.seg]), Point1(segments[last.seg])>>
    /\ Len(above) + Len(below) >= 1

\* --- C26
\* Points p and q lie in one built segment: its two endpoints, or an
\* endpoint and the crossing.
WithinBuiltSegment(p, q) ==
    \E n \in 1..Len(segments) :
        /\ RLe(R(segments[n].i), p.at)
        /\ RLe(p.at, q.at)
        /\ RLe(q.at, R(segments[n].i + 1))

\* Segment n is the first one built after a dropped pair of samples.
FollowsDrop(n) ==
    /\ n \in 2..Len(segments)
    /\ segments[n].i > segments[n - 1].i + 1

\* The strip has a point at sample i.
HasSample(strip, i) == \E j \in 1..Len(strip) : strip[j].at = R(i)

\* C26. When a segment is dropped for a non-finite coordinate, every two
\* consecutive points of an emitted strip are still the endpoints, or an
\* endpoint and the crossing, of one built segment, and a strip that has
\* the second endpoint of the segment that follows a drop, and begins
\* before it, has that segment's first endpoint too.
C26_NoJoinAcrossDrop ==
    pc \in {"strips", "done"} =>
        /\ \A strip \in Emitted : \A j \in 1..(Len(strip) - 1) :
               WithinBuiltSegment(strip[j], strip[j + 1])
        /\ pc = "done" =>
               \A n \in 1..Len(segments) : \A strip \in Emitted :
                   (/\ FollowsDrop(n)
                    /\ HasSample(strip, segments[n].i + 1)
                    /\ RLe(strip[1].at, R(segments[n].i)))
                       => HasSample(strip, segments[n].i)

\* --- C27
\* The y scale is strictly monotone where it is finite.
StrictlyMonotoneY == yScale \in {"down", "clip"}

\* a = b at one of the two samples of segment s.
TouchesAtEndpoint(s) ==
    \/ connected[s.i].a = connected[s.i].b
    \/ connected[s.i + 1].a = connected[s.i + 1].b

\* C27. With a strictly monotone y scale, for a segment whose endpoint
\* dominance flags differ splitAtCrossing returns nothing iff a = b at one
\* of the two endpoints; otherwise it returns a point whose x is strictly
\* between x0 and x1 (when x0 < x1) and at which the interpolated render-y
\* of A equals that of B.
C27_SolverOnSignChange ==
    StrictlyMonotoneY =>
        \A n \in 1..Len(segments) :
            LET s == segments[n]
                cross == SplitAtCrossing(s)
            IN  s.above0 # s.above1 =>
                    /\ cross = Null <=> TouchesAtEndpoint(s)
                    /\ cross # Null =>
                           /\ RLt(s.x0, s.x1) =>
                                  RLt(s.x0, cross.x) /\ RLt(cross.x, s.x1)
                           /\ cross.yA = cross.yB
                           /\ IsFinite(cross.yA)

\* C27 witness: under the linear y scale and increasing x positions the
\* segments hold a sign change with a = b at an endpoint and no crossing
\* returned, and a sign change with a # b at both endpoints whose crossing
\* lies strictly inside the segment.
C27_Witness ==
    /\ yScale = "down" /\ xScale = "point"
    /\ \E n \in 1..Len(segments) :
          /\ segments[n].above0 # segments[n].above1
          /\ TouchesAtEndpoint(segments[n])
          /\ SplitAtCrossing(segments[n]) = Null
    /\ \E n \in 1..Len(segments) :
          /\ segments[n].above0 # segments[n].above1
          /\ ~ TouchesAtEndpoint(segments[n])
          /\ RLt(segments[n].x0, SplitAtCrossing(segments[n]).x)
          /\ RLt(SplitAtCrossing(segments[n]).x, segments[n].x1)

\* --- C28
\* The five metrics rendered as lines.
LineMetrics == {"spread_acp", "spread_trayport", "cost_all", "cost_fixed",
                "cost_variable"}

C29_ToggleFrame ==
    (pc = "chart" /\ chart.last.m # "none") =>
        LET now == chart.view.hidden
            m == chart.last.m
            pre == chart.last.pre
        IN  /\ now[m] = ~ pre[m]
            /\ \A other \in MetricKey \ {m} : now[other] = pre[other]
            /\ DOMAIN now = MetricKey
            /\ chart.last2.m = m => now = chart.last2.pre
            /\ (chart.last2.m # "none" /\ chart.last2.m # m) =>
                   now = ToggleMetric(ToggleMetric(chart.last2.pre, m),
                                      chart.last2.m)

\* C29 witness: second_route was toggled twice in a row and the flags are
\* those before the two toggles, the overlay flag having been toggled
\* before that.
C29_Witness ==
    /\ pc = "chart"
    /\ chart.last.m = "second_route" /\ chart.last2.m = "second_route"
    /\ chart.view.hidden = chart.last2.pre
    /\ chart.view.hidden # chart.last.pre
    /\ chart.view.hidden.highlight

====
